---- MODULE Spec2Model ----
(***************************************************************************)
(* A model of neuroshare_mcd.py: the MCDFile accessor over one recording   *)
(* opened through the python-neuroshare binding, and the MCD2HDF5Converter *)
(* that writes the recording to an HDF5 file through h5py.                 *)
(*                                                                         *)
(* The binding (module ns), h5py and the operating system are the          *)
(* environment: what exists on disk, whether the driver loads, what the    *)
(* recording holds, whether the output file can be created.  They are     *)
(* drawn in Init and never change: the recording is read-only while the    *)
(* program runs.  Every method of MCDFile is an                            *)
(* operator that takes the object and returns the object after the call,   *)
(* what the call returned or raised, and the calls it made into the        *)
(* environment; one action per method applies it.                          *)
(***************************************************************************)
EXTENDS Integers, Sequences, FiniteSets, TLC

VARIABLES
    platform,       \* sys.platform
    exists,         \* the paths for which os.path.exists / Path.exists is true
    ns,             \* the native binding: the driver and the recording it decodes
    h5py,           \* the HDF5 library: whether it imports and can create the output
    numpy,          \* the numpy installed: what np.array does with a ragged list
    environ_PATH,   \* os.environ["PATH"], a sequence of directories
    mcd,            \* the MCDFile object the caller holds, or None
    block,          \* where the caller is relative to a `with MCDFile(...) as mcd:` block
    propagated,     \* the exception that left the with statement, or None
    result,         \* the last call: its name, arguments and outcome
    calls,          \* the calls the last call made into os, ns and h5py, in order
    h5              \* the output file of the converter, or None while there is none

vars ==
    <<platform, exists, ns, h5py, numpy, environ_PATH, mcd, block, propagated, result,
      calls, h5>>

envvars == <<platform, exists, ns, h5py, numpy>>

\* Python's None, for a scalar, for an object and for a path.
None == "None"

NoObject == [none |-> TRUE]

NoPath == <<>>

----------------------------------------------------------------------------
(* Bounds of the model.                                                    *)

MaxEntities == 1    \* Spec: a recording holds 0..MaxEntities entities
MaxListed == 2      \* SpecList: a recording holds 0..MaxListed entities
MaxItems == 1       \* an entity holds 0..MaxItems items
MaxPath == 2        \* MCDFile(...) is evaluated while PATH holds fewer than MaxPath entries
MaxData == 2        \* SpecData: an entity holds 0..MaxData items
MaxSources == 2     \* SpecData: a segment entity has 1..MaxSources sources
MaxConv == 2        \* SpecConv: a recording holds 0..MaxConv entities

----------------------------------------------------------------------------
(* Python outcomes: a call returns a value or raises an exception.         *)

Return(v) == [kind |-> "return", exc |-> None, msg |-> None, value |-> v]

Raise(e, m) == [kind |-> "raise", exc |-> e, msg |-> m, value |-> None]

Returned(out) == out.kind = "return"

Raised(out) == out.kind = "raise"

\* What a handler gives back: the object after the call, the outcome, the calls made.
Done(obj, out, log) == [mcd |-> obj, out |-> out, calls |-> log]

Call(fn, arg) == [fn |-> fn, arg |-> arg]

----------------------------------------------------------------------------
(* Entity type constants and names.                                        *)

ENTITY_UNKNOWN == 0
ENTITY_EVENT == 1
ENTITY_ANALOG == 2
ENTITY_SEGMENT == 3
ENTITY_NEURAL == 4

ENTITY_TYPE_NAMES ==
    (ENTITY_UNKNOWN :> "unknown") @@ (ENTITY_EVENT :> "event") @@
    (ENTITY_ANALOG :> "analog") @@ (ENTITY_SEGMENT :> "segment") @@
    (ENTITY_NEURAL :> "neural")

\* dict.get(key, default)
DictGet(d, key, default) == IF key \in DOMAIN d THEN d[key] ELSE default

----------------------------------------------------------------------------
(* Paths are sequences of components: dirname drops the last one, basename *)
(* is the last one, p / name appends one.                                  *)

dirname(p) == SubSeq(p, 1, Len(p) - 1)

basename(p) == p[Len(p)]

Join(p, name) == Append(p, name)

\* Path.cwd()
cwd == <<"work">>

\* script_dir / "Matlab-Import-Filter" / "Matlab_Interface" and Path.cwd(),
\* script_dir being Path(__file__).parent.parent.
search_paths ==
    << Join(Join(<<"repo">>, "Matlab-Import-Filter"), "Matlab_Interface"), cwd >>

lib_names ==
    IF platform = "win32" THEN <<"nsMCDLibrary64.dll", "nsMCDLibrary.dll">>
    ELSE IF platform = "darwin" THEN <<"nsMCDLibrary.dylib">>
    ELSE <<"nsMCDLibrary.so">>

\* The (search_path, lib_name) pairs in the order the nested loops visit them.
RECURSIVE Candidates(_, _)
Candidates(i, j) ==
    IF i > Len(search_paths) THEN <<>>
    ELSE IF j > Len(lib_names) THEN Candidates(i + 1, 1)
    ELSE <<[dir |-> search_paths[i], file |-> Join(search_paths[i], lib_names[j])]>>
         \o Candidates(i, j + 1)

\* The loops of _find_library_path: the first candidate whose directory and file exist.
RECURSIVE FirstExisting(_)
FirstExisting(cands) ==
    IF cands = <<>> THEN NoPath
    ELSE IF cands[1].dir \in exists /\ cands[1].file \in exists THEN cands[1].file
    ELSE FirstExisting(Tail(cands))

\* _find_library_path without the test of the path the caller gave.
_find_library_path_NoExplicit(library_path) ==
    LET found == FirstExisting(Candidates(1, 1))
    IN  IF found # NoPath THEN found
        ELSE Join(search_paths[1], lib_names[1])

_find_library_path(library_path) ==
    IF library_path # NoPath /\ library_path \in exists THEN library_path
    ELSE LET found == FirstExisting(Candidates(1, 1))
         IN  IF found # NoPath THEN found
             ELSE Join(search_paths[1], lib_names[1])

----------------------------------------------------------------------------
(* MCDFile._open_file: the object after the call, its outcome, its calls   *)
(* and os.environ["PATH"] after it.                                        *)

\* ns.File(filename): the binding finds its driver and opens the recording, or raises.
ns_File(filename) ==
    IF ns.file_ok THEN Return([filename |-> filename])
    ELSE Raise("NativeError", "ns.File")

\* ns.Library(lib_name, lib_dir): the binding loads the driver, or raises.
ns_Library(lib_name, lib_dir) ==
    IF ns.library_ok THEN Return([name |-> lib_name, dir |-> lib_dir])
    ELSE Raise("NativeError", "ns.Library")

OpenDone(obj, out, log, path) == [mcd |-> obj, out |-> out, calls |-> log, PATH |-> path]

\* _open_file without the outer try/except: what ns.File raises leaves as it is.
_open_file_NoWrap(self, path) ==
    LET has_lib  == self.library_path # NoPath /\ self.library_path \in exists
        lib_dir  == dirname(self.library_path)
        lib_name == basename(self.library_path)
        path1    == IF has_lib /\ platform = "win32" /\ lib_dir # <<>>
                    THEN <<lib_dir>> \o path ELSE path
        lib      == ns_Library(lib_name, lib_dir)
        file     == ns_File(self.filename)
        look     == <<Call("os.path.exists", self.library_path)>>
        load     == <<Call("ns.Library", self.library_path)>>
        open     == <<Call("ns.File", self.filename)>>
        finish(obj, log) ==
            IF Returned(file)
            THEN OpenDone([obj EXCEPT !._file = file.value], Return(None), log \o open, path1)
            ELSE OpenDone(obj, file, log \o open, path1)
    IN  IF ~has_lib THEN finish(self, look)
        ELSE IF Returned(lib)
             THEN finish([self EXCEPT !._lib = lib.value], look \o load)
             ELSE finish(self, look \o load)

_open_file(self, path) ==
    LET has_lib  == self.library_path # NoPath /\ self.library_path \in exists
        lib_dir  == dirname(self.library_path)
        lib_name == basename(self.library_path)
        path1    == IF has_lib /\ platform = "win32" /\ lib_dir # <<>>
                    THEN <<lib_dir>> \o path ELSE path
        lib      == ns_Library(lib_name, lib_dir)
        file     == ns_File(self.filename)
        look     == <<Call("os.path.exists", self.library_path)>>
        load     == <<Call("ns.Library", self.library_path)>>
        open     == <<Call("ns.File", self.filename)>>
        \* line 161 and line 157 end the same way: the file is set, or the
        \* outer handler turns the exception into RuntimeError
        finish(obj, log) ==
            IF Returned(file)
            THEN OpenDone([obj EXCEPT !._file = file.value], Return(None), log \o open, path1)
            ELSE OpenDone(obj, Raise("RuntimeError", "Failed to open MCD file: " \o file.msg),
                          log \o open, path1)
    IN  IF ~has_lib THEN finish(self, look)
        ELSE IF Returned(lib)
             THEN finish([self EXCEPT !._lib = lib.value], look \o load)
             ELSE finish(self, look \o load)

\* __init__ with the existence check of the recording moved after the open.
MCDFile__init__LateCheck(filename, library_path, path) ==
    LET self == [filename |-> filename,
                 library_path |-> _find_library_path(library_path),
                 _lib |-> NoObject, _file |-> NoObject]
        r == _open_file(self, path)
        log == <<Call("_find_library_path", library_path)>> \o r.calls
                  \o <<Call("os.path.exists", filename)>>
    IN  IF Raised(r.out) THEN OpenDone(NoObject, r.out, log, r.PATH)
        ELSE IF filename \notin exists
        THEN OpenDone(NoObject, Raise("FileNotFoundError", "MCD file not found"),
                      log, r.PATH)
        ELSE OpenDone(r.mcd, Return(None), log, r.PATH)

\* MCDFile.__init__: no object when it raises.
MCDFile__init__(filename, library_path, path) ==
    IF filename \notin exists
    THEN OpenDone(NoObject, Raise("FileNotFoundError", "MCD file not found"),
                  <<Call("os.path.exists", filename)>>, path)
    ELSE LET self == [filename |-> filename,
                      library_path |-> _find_library_path(library_path),
                      _lib |-> NoObject, _file |-> NoObject]
             r == _open_file(self, path)
             log == <<Call("os.path.exists", filename),
                      Call("_find_library_path", library_path)>> \o r.calls
         IN  IF Raised(r.out) THEN OpenDone(NoObject, r.out, log, r.PATH)
             ELSE OpenDone(r.mcd, Return(None), log, r.PATH)

\* MCDFile.close
close(self) ==
    LET s1 == IF self._file # NoObject THEN [self EXCEPT !._file = NoObject] ELSE self
    IN  Done([s1 EXCEPT !._lib = NoObject], Return(None), <<>>)

\* MCDFile.__enter__
__enter__(self) == Done(self, Return(self), <<>>)

\* __exit__ that does not close.
__exit__NoClose(self, exc_type) == Done(self, Return(None), <<>>)

\* __exit__ that returns True: the exception is swallowed.
__exit__Suppress(self, exc_type) ==
    LET c == close(self) IN Done(c.mcd, Return("True"), c.calls)

\* MCDFile.__exit__: closes, and returns None, which does not suppress the exception.
__exit__(self, exc_type) ==
    LET c == close(self) IN Done(c.mcd, Return(None), c.calls)

----------------------------------------------------------------------------
(* The native binding's view of the open recording.  ns.entities is the    *)
(* recording's entity table; entity id k is ns.entities[k + 1].            *)

entity_count == Len(ns.entities)

\* What the driver hands back for an index it does not have, when it does not
\* report an error: an entity of unknown type with no items.
NoEntity ==
    [label |-> "", entity_type |-> ENTITY_UNKNOWN, item_count |-> 0, source_count |-> 0]

\* self._file.get_entity(entity_id).  The wrapper passes the id through unchecked;
\* for an id outside the table the driver either reports an error, which the
\* binding raises, or does not.
get_entity(entity_id) ==
    IF entity_id \in 0..(entity_count - 1) THEN Return(ns.entities[entity_id + 1])
    ELSE IF ns.bad_index = "raise" THEN Raise("NativeError", "get_entity")
    ELSE Return(NoEntity)

\* The items of the recording: item i of entity id.  ns.times holds the time
\* the binding reports for each item index; the order is the binding's.
Timestamp(id, i) == ns.times[i + 1]

Sample(id, i) == 10 * id + i

\* The array the binding hands back for segment index of entity id: index + 1
\* rows of ns.columns entries.  The shape is the binding's: nothing in the
\* program ties the number of columns to entity.source_count.
Waveform(entity, id, index) ==
    [r \in 1..(index + 1) |->
        [c \in 1..ns.columns |-> Sample(id, index) + 100 * r + 1000 * c]]

\* The driver fails to read the data of the entities in ns.bad_data, and the
\* binding raises.
DataError(id) == id \in ns.bad_data

\* entity.get_data(index) of a segment entity: (data, timestamp, sample_count, unit_id).
\* The wrapper passes the index through unchecked; for an index outside the
\* entity the driver either reports an error, which the binding raises, or
\* hands back an empty segment.
segment_get_data(entity, id, index) ==
    IF DataError(id) THEN Raise("NativeError", "get_data")
    ELSE IF index \in 0..(entity.item_count - 1)
    THEN Return([data |-> Waveform(entity, id, index), timestamp |-> Timestamp(id, index),
                 sample_count |-> index + 1, unit_id |-> 0])
    ELSE IF ns.bad_index = "raise" THEN Raise("NativeError", "get_data")
    ELSE Return([data |-> <<>>, timestamp |-> 0, sample_count |-> 0, unit_id |-> 0])

\* entity.get_data(index) of an event entity: (timestamp, value).  The value
\* is a Python object: ns.value_types gives the type of the value of each item
\* index ("int", "str", "bytes", "NoneType", or "list" for a list of index + 1
\* numbers).
event_get_data(entity, id, index) ==
    IF DataError(id) THEN Raise("NativeError", "get_data")
    ELSE Return([timestamp |-> Timestamp(id, index),
                 value |-> [type |-> ns.value_types[index + 1], v |-> Sample(id, index)]])

\* np.array(values) on a list of such values: an array of numbers when all are
\* numbers (or there is nothing, or one list of numbers); an array of strings
\* (dtype U or S), every value turned into a string, when strings are among
\* numbers; an array of objects (dtype O) when None is among them; for lists
\* of different lengths ValueError, or an array of objects with older numpy.
np_array(values) ==
    LET types == {values[k].type : k \in DOMAIN values}
        as(t) == [k \in DOMAIN values |-> [values[k] EXCEPT !.type = t]]
    IN  IF "list" \in types /\ Len(values) >= 2
        THEN IF numpy.ragged = "raise" THEN Raise("ValueError", "inhomogeneous shape")
             ELSE Return([dtype |-> "O", items |-> values])
        ELSE IF "list" \in types THEN Return([dtype |-> "number", items |-> values])
        ELSE IF "NoneType" \in types THEN Return([dtype |-> "O", items |-> values])
        ELSE IF "str" \in types THEN Return([dtype |-> "U", items |-> as("str")])
        ELSE IF "bytes" \in types THEN Return([dtype |-> "S", items |-> as("bytes")])
        ELSE Return([dtype |-> "number", items |-> values])

\* `try: values = np.array(values)` / `except: pass`: the list stays a list
\* when np.array raises.
try_np_array(values) ==
    IF Raised(np_array(values)) THEN [dtype |-> "list", items |-> values]
    ELSE np_array(values).value

\* The indices start_index .. start_index + count - 1 that the entity has.
RangeRead(entity, start_index, count) ==
    LET last == IF start_index + count < entity.item_count
                THEN start_index + count ELSE entity.item_count
    IN  IF start_index < last THEN [k \in 1..(last - start_index) |-> start_index + k - 1]
        ELSE <<>>

\* entity.get_data(start_index, count) of an analog entity: (data, timestamps,
\* cont_count).  What the binding makes of the arguments is the binding's, and
\* ns.analog says which: a negative count stands for the items from
\* start_index on ("rest") or for item_count items ("all"); a range that goes
\* past the last item is cut short ("clip") or is an error the binding raises
\* ("raise"); there is one timestamp per sample ("each") or the timestamp of
\* the first sample alone ("first").
analog_get_data(entity, id, start_index, count) ==
    LET n  == IF count >= 0 THEN count
              ELSE IF ns.analog.negative = "rest" THEN entity.item_count - start_index
              ELSE entity.item_count
        ix == RangeRead(entity, start_index, n)
        stamps == [k \in 1..Len(ix) |-> Timestamp(id, ix[k])]
    IN  IF DataError(id) THEN Raise("NativeError", "get_data")
        ELSE IF start_index + n > entity.item_count /\ ns.analog.past_end = "raise"
        THEN Raise("NativeError", "get_data")
        ELSE Return([data |-> [k \in 1..Len(ix) |-> Sample(id, ix[k])],
                     timestamps |-> IF ns.analog.stamps = "each" \/ stamps = <<>>
                                    THEN stamps ELSE <<stamps[1]>>,
                     cont_count |-> Len(ix)])

\* entity.get_data(start_index, count) of a neural entity: the timestamps.
\* For a range that goes past the last item the driver either reports an
\* error, which the binding raises, or returns the items there are.
neural_get_data(entity, id, start_index, count) ==
    LET ix == RangeRead(entity, start_index, count)
    IN  IF DataError(id) THEN Raise("NativeError", "get_data")
        ELSE IF start_index + count > entity.item_count /\ ns.bad_index = "raise"
        THEN Raise("NativeError", "get_data")
        ELSE Return([k \in 1..Len(ix) |-> Timestamp(id, ix[k])])

----------------------------------------------------------------------------
(* The read operations of MCDFile.                                         *)

NotOpenError == Raise("RuntimeError", "File is not open")

\* info that releases the native file once it has read the metadata.
info_Closes(self) ==
    IF self._file = NoObject THEN Done(self, NotOpenError, <<>>)
    ELSE Done([self EXCEPT !._file = NoObject],
              Return([file_type |-> "MCD", entity_count |-> entity_count,
                      keys |-> {"file_type", "entity_count", "time_stamp_resolution",
                                "time_span", "app_name", "comment", "date"}]),
              <<>>)

\* MCDFile.info
info(self) ==
    IF self._file = NoObject THEN Done(self, NotOpenError, <<>>)
    ELSE Done(self,
              Return([file_type |-> "MCD", entity_count |-> entity_count,
                      keys |-> {"file_type", "entity_count", "time_stamp_resolution",
                                "time_span", "app_name", "comment", "date"}]),
              <<>>)

\* One entry of list_entities, for entity id i.
EntitySummary(i, entity) ==
    [id |-> i, label |-> entity.label, type |-> entity.entity_type,
     type_name |-> DictGet(ENTITY_TYPE_NAMES, entity.entity_type, "unknown"),
     item_count |-> entity.item_count]

\* list_entities with the loop started at 1: entity 0 is skipped.
list_entities_SkipFirst(self) ==
    IF self._file = NoObject THEN Done(self, NotOpenError, <<>>)
    ELSE Done(self,
              Return([k \in 1..(entity_count - 1) |->
                        EntitySummary(k, get_entity(k).value)]),
              [k \in 1..(entity_count - 1) |-> Call("get_entity", k)])

\* MCDFile.list_entities
list_entities(self) ==
    IF self._file = NoObject THEN Done(self, NotOpenError, <<>>)
    ELSE Done(self,
              Return([k \in 1..entity_count |->
                        EntitySummary(k - 1, get_entity(k - 1).value)]),
              [k \in 1..entity_count |-> Call("get_entity", k - 1)])

\* str.lower on the names the callers of this model pass.
lower(s) ==
    CASE s = "Analog"  -> "analog"
      [] s = "EVENT"   -> "event"
      [] s = "Unknown" -> "unknown"
      [] s = "SPIKE"   -> "spike"
      [] OTHER         -> s

\* The inverse built one off: every name maps to the code after its own.
type_map_OffByOne ==
    [n \in {ENTITY_TYPE_NAMES[k] : k \in DOMAIN ENTITY_TYPE_NAMES} |->
        (CHOOSE k \in DOMAIN ENTITY_TYPE_NAMES : ENTITY_TYPE_NAMES[k] = n) + 1]

\* {v: k for k, v in ENTITY_TYPE_NAMES.items()}
type_map ==
    [n \in {ENTITY_TYPE_NAMES[k] : k \in DOMAIN ENTITY_TYPE_NAMES} |->
        CHOOSE k \in DOMAIN ENTITY_TYPE_NAMES : ENTITY_TYPE_NAMES[k] = n]

\* The entity_type argument is a str or an int.
StrArg(s) == [isstr |-> TRUE, name |-> s]

IntArg(i) == [isstr |-> FALSE, code |-> i]

\* get_entities_by_type that looks the name up with a default instead of
\* raising: an unrecognized name filters on a code no entity has.
get_entities_by_type_Lenient(self, entity_type) ==
    LET type_num == IF entity_type.isstr
                    THEN DictGet(type_map, lower(entity_type.name), -1)
                    ELSE entity_type.code
        all == list_entities(self)
    IN  IF Raised(all.out) THEN all
        ELSE Done(self,
                  Return(SelectSeq(all.out.value, LAMBDA e : e.type = type_num)),
                  all.calls)

\* MCDFile.get_entities_by_type
get_entities_by_type(self, entity_type) ==
    IF entity_type.isstr /\ lower(entity_type.name) \notin DOMAIN type_map
    THEN Done(self, Raise("ValueError", "Invalid entity type"), <<>>)
    ELSE LET type_num == IF entity_type.isstr THEN type_map[lower(entity_type.name)]
                         ELSE entity_type.code
             all == list_entities(self)
         IN  IF Raised(all.out) THEN all
             ELSE Done(self,
                       Return(SelectSeq(all.out.value, LAMBDA e : e.type = type_num)),
                       all.calls)

\* MCDFile.get_entity_info
get_entity_info(self, entity_id) ==
    IF self._file = NoObject THEN Done(self, NotOpenError, <<>>)
    ELSE LET got == get_entity(entity_id)
             log == <<Call("get_entity", entity_id)>>
             entity == got.value
             base == {"id", "label", "type", "type_name", "item_count", "metadata_raw"}
             more == IF entity.entity_type = ENTITY_ANALOG
                     THEN {"sample_rate", "min_value", "max_value", "units", "resolution"}
                     ELSE IF entity.entity_type = ENTITY_SEGMENT
                     THEN {"source_count", "max_sample_count", "sample_rate"}
                     ELSE {}
         IN  IF Raised(got) THEN Done(self, got, log)
             ELSE Done(self,
                       Return([id |-> entity_id, label |-> entity.label,
                               type |-> entity.entity_type,
                               type_name |-> DictGet(ENTITY_TYPE_NAMES, entity.entity_type,
                                                     "unknown"),
                               item_count |-> entity.item_count,
                               keys |-> base \cup more]),
                       log)

----------------------------------------------------------------------------
(* The typed accessors of MCDFile.                                         *)

TypeMismatchError(name) == Raise("ValueError", name)

\* get_analog_data returning the timestamps of the whole entity.
get_analog_data_AllTimestamps(self, entity_id, start_index, count) ==
    IF self._file = NoObject THEN Done(self, NotOpenError, <<>>)
    ELSE LET got == get_entity(entity_id)
             log == <<Call("get_entity", entity_id)>>
             entity == got.value
             d == analog_get_data(entity, entity_id, start_index, count)
             t == analog_get_data(entity, entity_id, 0, -1)
             log2 == log \o <<Call("get_data", <<start_index, count>>)>>
         IN  IF Raised(got) THEN Done(self, got, log)
             ELSE IF entity.entity_type # ENTITY_ANALOG
             THEN Done(self, TypeMismatchError("is not an analog entity"), log)
             ELSE IF Raised(d) THEN Done(self, d, log2)
             ELSE Done(self,
                       Return([data |-> d.value.data, timestamps |-> t.value.timestamps,
                               continuous_count |-> d.value.cont_count,
                               label |-> entity.label]),
                       log2)

\* get_analog_data asking the binding for one sample more than count.
get_analog_data_CountPlusOne(self, entity_id, start_index, count) ==
    IF self._file = NoObject THEN Done(self, NotOpenError, <<>>)
    ELSE LET got == get_entity(entity_id)
             log == <<Call("get_entity", entity_id)>>
             entity == got.value
             d == analog_get_data(entity, entity_id, start_index, count + 1)
             log2 == log \o <<Call("get_data", <<start_index, count + 1>>)>>
         IN  IF Raised(got) THEN Done(self, got, log)
             ELSE IF entity.entity_type # ENTITY_ANALOG
             THEN Done(self, TypeMismatchError("is not an analog entity"), log)
             ELSE IF Raised(d) THEN Done(self, d, log2)
             ELSE Done(self,
                       Return([data |-> d.value.data, timestamps |-> d.value.timestamps,
                               continuous_count |-> d.value.cont_count,
                               label |-> entity.label]),
                       log2)

\* MCDFile.get_analog_data
get_analog_data(self, entity_id, start_index, count) ==
    IF self._file = NoObject THEN Done(self, NotOpenError, <<>>)
    ELSE LET got == get_entity(entity_id)
             log == <<Call("get_entity", entity_id)>>
             entity == got.value
             d == analog_get_data(entity, entity_id, start_index, count)
             log2 == log \o <<Call("get_data", <<start_index, count>>)>>
         IN  IF Raised(got) THEN Done(self, got, log)
             ELSE IF entity.entity_type # ENTITY_ANALOG
             THEN Done(self, TypeMismatchError("is not an analog entity"), log)
             ELSE IF Raised(d) THEN Done(self, d, log2)
             ELSE Done(self,
                       Return([data |-> d.value.data, timestamps |-> d.value.timestamps,
                               continuous_count |-> d.value.cont_count,
                               label |-> entity.label]),
                       log2)

\* get_event_data with the type check of get_analog_data pasted in.
get_event_data_WrongType(self, entity_id) ==
    IF self._file = NoObject THEN Done(self, NotOpenError, <<>>)
    ELSE LET got == get_entity(entity_id)
             log == <<Call("get_entity", entity_id)>>
             entity == got.value
             n_events == entity.item_count
             item(i) == event_get_data(entity, entity_id, i)
         IN  IF Raised(got) THEN Done(self, got, log)
             ELSE IF entity.entity_type # ENTITY_ANALOG
             THEN Done(self, TypeMismatchError("is not an event entity"), log)
             ELSE IF n_events > 0 /\ Raised(item(0))
             THEN Done(self, item(0), log \o <<Call("get_data", <<0>>)>>)
             ELSE Done(self,
                       Return([timestamps |->
                                  [k \in 1..n_events |-> item(k - 1).value.timestamp],
                               values |->
                                  try_np_array([k \in 1..n_events |->
                                                   item(k - 1).value.value]),
                               label |-> entity.label]),
                       log \o [k \in 1..n_events |-> Call("get_data", <<k - 1>>)])

\* MCDFile.get_event_data
get_event_data(self, entity_id) ==
    IF self._file = NoObject THEN Done(self, NotOpenError, <<>>)
    ELSE LET got == get_entity(entity_id)
             log == <<Call("get_entity", entity_id)>>
             entity == got.value
             n_events == entity.item_count
             item(i) == event_get_data(entity, entity_id, i)
         IN  IF Raised(got) THEN Done(self, got, log)
             ELSE IF entity.entity_type # ENTITY_EVENT
             THEN Done(self, TypeMismatchError("is not an event entity"), log)
             ELSE IF n_events > 0 /\ Raised(item(0))
             THEN Done(self, item(0), log \o <<Call("get_data", <<0>>)>>)
             ELSE Done(self,
                       Return([timestamps |->
                                  [k \in 1..n_events |-> item(k - 1).value.timestamp],
                               values |->
                                  try_np_array([k \in 1..n_events |->
                                                   item(k - 1).value.value]),
                               label |-> entity.label]),
                       log \o [k \in 1..n_events |-> Call("get_data", <<k - 1>>)])

\* MCDFile.get_segment_data
get_segment_data(self, entity_id, index) ==
    IF self._file = NoObject THEN Done(self, NotOpenError, <<>>)
    ELSE LET got == get_entity(entity_id)
             log == <<Call("get_entity", entity_id)>>
             entity == got.value
             seg == segment_get_data(entity, entity_id, index)
             log2 == log \o <<Call("get_data", <<index>>)>>
         IN  IF Raised(got) THEN Done(self, got, log)
             ELSE IF entity.entity_type # ENTITY_SEGMENT
             THEN Done(self, TypeMismatchError("is not a segment entity"), log)
             ELSE IF Raised(seg) THEN Done(self, seg, log2)
             ELSE Done(self,
                       Return([data |-> seg.value.data, timestamp |-> seg.value.timestamp,
                               sample_count |-> seg.value.sample_count,
                               unit_id |-> seg.value.unit_id,
                               source_count |-> entity.source_count,
                               label |-> entity.label]),
                       log2)

\* The loop of get_all_segments from index i on: the records so far, or the
\* first exception a get_segment_data raises.
RECURSIVE AllSegmentsFrom(_, _, _, _, _, _)
AllSegmentsFrom(self, entity_id, i, n, segments, log) ==
    IF i >= n THEN Done(self, Return(segments), log)
    ELSE LET r == get_segment_data(self, entity_id, i)
         IN  IF Raised(r.out) THEN Done(self, r.out, log \o r.calls)
             ELSE AllSegmentsFrom(self, entity_id, i + 1, n,
                                  Append(segments, r.out.value), log \o r.calls)

\* get_all_segments with a loop that starts at index 1.
get_all_segments_FromOne(self, entity_id) ==
    IF self._file = NoObject THEN Done(self, NotOpenError, <<>>)
    ELSE LET got == get_entity(entity_id)
             log == <<Call("get_entity", entity_id)>>
             entity == got.value
         IN  IF Raised(got) THEN Done(self, got, log)
             ELSE IF entity.entity_type # ENTITY_SEGMENT
             THEN Done(self, TypeMismatchError("is not a segment entity"), log)
             ELSE AllSegmentsFrom(self, entity_id, 1, entity.item_count, <<>>, log)

\* MCDFile.get_all_segments
get_all_segments(self, entity_id) ==
    IF self._file = NoObject THEN Done(self, NotOpenError, <<>>)
    ELSE LET got == get_entity(entity_id)
             log == <<Call("get_entity", entity_id)>>
             entity == got.value
         IN  IF Raised(got) THEN Done(self, got, log)
             ELSE IF entity.entity_type # ENTITY_SEGMENT
             THEN Done(self, TypeMismatchError("is not a segment entity"), log)
             ELSE AllSegmentsFrom(self, entity_id, 0, entity.item_count, <<>>, log)

\* MCDFile.get_neural_data
get_neural_data(self, entity_id, start_index, count) ==
    IF self._file = NoObject THEN Done(self, NotOpenError, <<>>)
    ELSE LET got == get_entity(entity_id)
             log == <<Call("get_entity", entity_id)>>
             entity == got.value
             count1 == IF count < 0 THEN entity.item_count ELSE count
             d == neural_get_data(entity, entity_id, start_index, count1)
             log2 == log \o <<Call("get_data", <<start_index, count1>>)>>
         IN  IF Raised(got) THEN Done(self, got, log)
             ELSE IF entity.entity_type # ENTITY_NEURAL
             THEN Done(self, TypeMismatchError("is not a neural entity"), log)
             ELSE IF Raised(d) THEN Done(self, d, log2)
             ELSE Done(self, Return([timestamps |-> d.value, label |-> entity.label]), log2)

----------------------------------------------------------------------------
(* MCD2HDF5Converter.  The output file is a record: whether a handle on it *)
(* is open, the names of its attributes, its top-level groups, and the     *)
(* groups created under them, each with its datasets, the names of its     *)
(* attributes and, for a segment entity, one subgroup per segment.  A      *)
(* label is a sequence of characters.                                      *)

\* MCD2HDF5Converter.__init__
MCD2HDF5Converter__init__(mcd_filename, hdf5_filename) ==
    [mcd_filename |-> mcd_filename, hdf5_filename |-> hdf5_filename]

\* str.replace(old, new) for a one-character old.
replace(s, old, new) == [k \in DOMAIN s |-> IF s[k] = old THEN new ELSE s[k]]

\* f"segment_{seg_idx:04d}": the index in decimal, padded with zeros to 4 digits.
segment_name(seg_idx) ==
    [prefix |-> "segment_",
     digits |-> << (seg_idx \div 1000) % 10, (seg_idx \div 100) % 10,
                   (seg_idx \div 10) % 10, seg_idx % 10 >>]

\* A progress callback: whether one was passed, and the invocation at which
\* it raises (-1: it never does).
NoCallback == [given |-> FALSE, fails_at |-> -1]

\* What the converter has done so far: the output file, the exception on its
\* way out if any, and the calls made.
Step(f, out, log) == [h5 |-> f, out |-> out, calls |-> log]

\* h5py.File(name, "w"): a new empty file, open, in place of what was there;
\* OSError when the file cannot be created.
h5py_File(name) ==
    IF h5py.writable THEN Return([open |-> TRUE, attrs |-> {}, top |-> <<>>, groups |-> <<>>])
    ELSE Raise("OSError", "Unable to create file")

\* Leaving `with h5py.File(...) as h5`: the handle is closed.
h5py_File__exit__(f) == [f EXCEPT !.open = FALSE]

\* parent.create_group(name), for a group under a top-level group: ValueError
\* when the parent already has a member of that name.
create_group(f, parent, name) ==
    IF \E k \in DOMAIN f.groups : f.groups[k].parent = parent /\ f.groups[k].name = name
    THEN [h5 |-> f, out |-> Raise("ValueError", "name already exists")]
    ELSE [h5 |-> [f EXCEPT !.groups =
                     Append(@, [parent |-> parent, name |-> name, datasets |-> <<>>,
                                attrs |-> {}, segments |-> <<>>])],
          out |-> Return(None)]

\* h5py has an HDF5 type for arrays of numbers and of byte strings (dtype S),
\* and none for dtype U and dtype O: create_dataset raises TypeError.
h5py_storable(values) == values.dtype \in {"number", "S"}

\* grp.create_dataset(name, data=data) on the group created last.
create_dataset(f, name, data) ==
    [f EXCEPT !.groups[Len(f.groups)].datasets = Append(@, [name |-> name, data |-> data])]

\* grp.attrs[name] = value on the group created last.
set_attr(f, name) == [f EXCEPT !.groups[Len(f.groups)].attrs = @ \cup {name}]

\* The body of `for seg_idx, seg in enumerate(segments)`, for every segment.
segment_groups(segments) ==
    [k \in DOMAIN segments |->
        [name |-> segment_name(k - 1),
         datasets |-> <<[name |-> "data", data |-> segments[k].data]>>,
         attrs |-> [timestamp |-> segments[k].timestamp, unit_id |-> segments[k].unit_id]]]

\* isinstance(data["values"], np.ndarray)
isinstance_ndarray(values) == values.dtype # "list"

\* The event branch after create_group: the timestamps dataset, then the
\* values dataset when the values are an array, which raises TypeError when
\* h5py cannot store the array.
write_event(f, data) ==
    LET t == create_dataset(f, "timestamps", data.timestamps)
    IN  IF ~isinstance_ndarray(data.values) THEN [h5 |-> t, out |-> Return(None)]
        ELSE IF h5py_storable(data.values)
        THEN [h5 |-> create_dataset(t, "values", data.values), out |-> Return(None)]
        ELSE [h5 |-> t, out |-> Raise("TypeError", "no HDF5 equivalent of the dtype")]

\* The branch of one entity type inside the try: read through the accessor,
\* create the group, write.  The first exception ends it.
convert_typed(st, self, entity_id, entity_type, label) ==
    LET accessor == CASE entity_type = ENTITY_EVENT -> "get_event_data"
                      [] entity_type = ENTITY_ANALOG -> "get_analog_data"
                      [] entity_type = ENTITY_SEGMENT -> "get_all_segments"
                      [] OTHER -> "get_neural_data"
        parent == CASE entity_type = ENTITY_EVENT -> "events"
                    [] entity_type = ENTITY_ANALOG -> "analog"
                    [] entity_type = ENTITY_SEGMENT -> "segments"
                    [] OTHER -> "neural"
        r == CASE entity_type = ENTITY_EVENT -> get_event_data(self, entity_id)
               [] entity_type = ENTITY_ANALOG -> get_analog_data(self, entity_id, 0, -1)
               [] entity_type = ENTITY_SEGMENT -> get_all_segments(self, entity_id)
               [] OTHER -> get_neural_data(self, entity_id, 0, -1)
        data == r.out.value
        log1 == st.calls \o <<Call(accessor, entity_id)>> \o r.calls
        log2 == Append(log1, Call("create_group", <<parent, label>>))
        g == create_group(st.h5, parent, label)
        written ==
            CASE entity_type = ENTITY_ANALOG ->
                   set_attr(set_attr(create_dataset(create_dataset(g.h5, "data", data.data),
                                                    "timestamps", data.timestamps),
                                     "sample_rate"),
                            "units")
              [] entity_type = ENTITY_SEGMENT ->
                   [g.h5 EXCEPT !.groups[Len(g.h5.groups)].segments = segment_groups(data)]
              [] OTHER -> create_dataset(g.h5, "timestamps", data.timestamps)
    IN  IF Raised(r.out) THEN Step(st.h5, r.out, log1)
        ELSE IF Raised(g.out) THEN Step(st.h5, g.out, log2)
        ELSE IF entity_type = ENTITY_EVENT
        THEN CHOOSE s \in {Step(w.h5, IF Raised(w.out) THEN w.out ELSE st.out, log2) :
                              w \in {write_event(g.h5, data)}} : TRUE
        ELSE Step(written, st.out, log2)

\* `except Exception as e` that raises the exception again.
except_Exception_Reraise(r, label) == r

\* `except Exception as e: print(f"Warning: Failed to convert entity {label}: {e}")`
except_Exception(r, label) ==
    Step(r.h5, Return(None), Append(r.calls, Call("print", <<"Warning", label, r.out.msg>>)))

\* The try statement of the loop body: an entity of no known type is skipped.
convert_entity(st, self, entity_info) ==
    LET label == replace(entity_info.label, "/", "_")
    IN  CHOOSE end \in
            {IF Raised(r.out) THEN except_Exception(r, label) ELSE r :
                r \in {IF entity_info.type \in {ENTITY_EVENT, ENTITY_ANALOG,
                                                 ENTITY_SEGMENT, ENTITY_NEURAL}
                       THEN convert_typed(st, self, entity_info.id, entity_info.type,
                                          label)
                       ELSE st}} : TRUE

\* `if progress_callback: progress_callback(i, total, message)`: what the
\* callback raises leaves convert.
progress(st, progress_callback, i, total, message) ==
    IF ~progress_callback.given THEN st
    ELSE Step(st.h5,
              IF progress_callback.fails_at = i THEN Raise("CallbackError", "") ELSE st.out,
              Append(st.calls, Call("progress_callback", <<i, total, message>>)))

\* The last statement of convert without its callback.
final_progress_Skip(st, progress_callback, total) == st

\* The last statement of convert.
final_progress(st, progress_callback, total) ==
    progress(st, progress_callback, total, total, <<"Conversion complete">>)

\* `for i, entity_info in enumerate(entities)` from position i on.  (The
\* one-element sets bind the state after a statement once it is computed.)
RECURSIVE convert_from(_, _, _, _, _)
convert_from(st, self, entities, i, progress_callback) ==
    IF i >= Len(entities) THEN st
    ELSE LET entity_info == entities[i + 1]
             p == progress(st, progress_callback, i, Len(entities),
                           <<"Converting ", entity_info.label>>)
         IN  IF Raised(p.out) THEN p
             ELSE CHOOSE next \in
                      {IF Raised(c.out) THEN c
                       ELSE convert_from(c, self, entities, i + 1, progress_callback) :
                          c \in {convert_entity(p, self, entity_info)}} : TRUE

\* The body of `with h5py.File(...) as h5`.
convert_body(self, f, progress_callback, log) ==
    LET i == info(self)
        attrs == [f EXCEPT !.attrs = i.out.value.keys \ {"date"}]
        grouped == [attrs EXCEPT !.top = <<"events", "analog", "segments", "neural">>]
        l == list_entities(self)
        log1 == log \o <<Call("info", <<>>)>> \o i.calls
        log2 == log1 \o <<Call("list_entities", <<>>)>> \o l.calls
        entities == l.out.value
    IN  IF Raised(i.out) THEN Step(f, i.out, log1)
        ELSE IF Raised(l.out) THEN Step(grouped, l.out, log2)
        ELSE CHOOSE end \in
                 {IF Raised(done.out) THEN done
                  ELSE final_progress(done, progress_callback, Len(entities)) :
                     done \in {convert_from(Step(grouped, Return(None), log2), self,
                                             entities, 0, progress_callback)}} : TRUE

ConvertDone(obj, f, out, log, path) ==
    [mcd |-> obj, h5 |-> f, out |-> out, calls |-> log, PATH |-> path]

\* convert that treats a failure to create the output file like the failure
\* of an entity: a warning, and a normal return.
convert_Downgrade(self, progress_callback, path, disk) ==
    LET src == MCDFile__init__(self.mcd_filename, NoPath, path)
        log1 == <<Call("import", "h5py")>> \o src.calls
        entered == __enter__(src.mcd).out.value
        dst == h5py_File(self.hdf5_filename)
        log2 == Append(log1, Call("h5py.File", self.hdf5_filename))
        exc(out) == IF Raised(out) THEN out.exc ELSE None
    IN  IF ~h5py.installed
        THEN ConvertDone(NoObject, disk, Raise("ImportError", "h5py is required"),
                         <<Call("import", "h5py")>>, path)
        ELSE IF Raised(src.out) THEN ConvertDone(NoObject, disk, src.out, log1, src.PATH)
        ELSE IF Raised(dst)
        THEN ConvertDone(__exit__(entered, None).mcd, disk, Return(None),
                         log2 \o <<Call("print", <<"Warning", <<>>, dst.msg>>),
                                   Call("MCDFile.__exit__", None)>>,
                         src.PATH)
        ELSE CHOOSE end \in
                 {ConvertDone(__exit__(entered, exc(body.out)).mcd,
                              h5py_File__exit__(body.h5), body.out,
                              body.calls \o <<Call("h5py.File.__exit__", exc(body.out)),
                                              Call("MCDFile.__exit__", exc(body.out))>>,
                              src.PATH) :
                     body \in {convert_body(entered, dst.value, progress_callback,
                                             log2)}} : TRUE

\* convert with `import h5py` after the two with statements, where h5py is
\* missing: the source has been opened and the output file created by then.
convert_LateImport(self, progress_callback, path, disk) ==
    LET src == MCDFile__init__(self.mcd_filename, NoPath, path)
        entered == __enter__(src.mcd).out.value
    IN  IF Raised(src.out) THEN ConvertDone(NoObject, disk, src.out, src.calls, src.PATH)
        ELSE ConvertDone(__exit__(entered, "ImportError").mcd,
                         [open |-> FALSE, attrs |-> {}, top |-> <<>>, groups |-> <<>>],
                         Raise("ImportError", "h5py is required"),
                         src.calls \o <<Call("h5py.File", self.hdf5_filename),
                                        Call("import", "h5py"),
                                        Call("MCDFile.__exit__", "ImportError")>>,
                         src.PATH)

\* MCD2HDF5Converter.convert.  disk is the output file before the call.
convert(self, progress_callback, path, disk) ==
    LET src == MCDFile__init__(self.mcd_filename, NoPath, path)
        log1 == <<Call("import", "h5py")>> \o src.calls
        entered == __enter__(src.mcd).out.value
        dst == h5py_File(self.hdf5_filename)
        log2 == Append(log1, Call("h5py.File", self.hdf5_filename))
        exc(out) == IF Raised(out) THEN out.exc ELSE None
    IN  IF ~h5py.installed
        THEN ConvertDone(NoObject, disk, Raise("ImportError", "h5py is required"),
                         <<Call("import", "h5py")>>, path)
        ELSE IF Raised(src.out) THEN ConvertDone(NoObject, disk, src.out, log1, src.PATH)
        ELSE IF Raised(dst)
        THEN ConvertDone(__exit__(entered, exc(dst)).mcd, disk, dst,
                         Append(log2, Call("MCDFile.__exit__", exc(dst))), src.PATH)
        ELSE CHOOSE end \in
                 {ConvertDone(__exit__(entered, exc(body.out)).mcd,
                              h5py_File__exit__(body.h5), body.out,
                              body.calls \o <<Call("h5py.File.__exit__", exc(body.out)),
                                              Call("MCDFile.__exit__", exc(body.out))>>,
                              src.PATH) :
                     body \in {convert_body(entered, dst.value, progress_callback,
                                             log2)}} : TRUE

----------------------------------------------------------------------------
(* What the callers pass.                                                  *)

RecPath == <<"data", "rec.mcd">>

\* The recording, and a path where there is no file.
Filenames == {RecPath, <<"data", "other.mcd">>}

ExplicitLib == <<"opt", "ns", "nsMCDLibrary.so">>

LibraryArgs == {NoPath, ExplicitLib}

\* The type codes the driver may report: those of the table and one outside it.
NativeTypeCodes == ENTITY_UNKNOWN..(ENTITY_NEURAL + 1)

EntityIds == 0..MaxEntities

\* The ranges asked of get_analog_data and get_neural_data: from the first or
\* the last item, all of them (count = -1) or MaxItems of them.
StartIndices == {0, MaxItems}

Counts == {-1, MaxItems}

ReadOps ==
    {"info", "list_entities", "get_entities_by_type", "get_entity_info",
     "get_analog_data", "get_event_data", "get_segment_data", "get_all_segments",
     "get_neural_data"}

----------------------------------------------------------------------------
(* The actions: one per call the caller can make.                          *)

Outside == [at |-> "outside", exc |-> None]

\* The call `name(args)` was made and ended as r says.
Happened(name, args, r) ==
    /\ mcd' = r.mcd
    /\ result' = [op |-> name, args |-> args, out |-> r.out]
    /\ calls' = r.calls

\* mcd = MCDFile(filename, library_path)
Construct ==
    \E f \in Filenames, lp \in LibraryArgs :
        /\ mcd = NoObject
        /\ block.at = "outside"
        /\ Len(environ_PATH) < MaxPath
        /\ LET r == MCDFile__init__(f, lp, environ_PATH)
           IN  /\ Happened("open", <<f, lp>>, r)
               /\ environ_PATH' = r.PATH
        /\ UNCHANGED <<envvars, block, propagated, h5>>

\* with MCDFile(filename, library_path) as mcd:
WithEnter ==
    \E f \in Filenames, lp \in LibraryArgs :
        /\ mcd = NoObject
        /\ block.at = "outside"
        /\ Len(environ_PATH) < MaxPath
        /\ LET r == MCDFile__init__(f, lp, environ_PATH)
           IN  /\ environ_PATH' = r.PATH
               /\ IF Raised(r.out)
                  THEN /\ Happened("with_enter", <<f, lp>>, r)
                       /\ propagated' = r.out.exc
                       /\ block' = block
                  ELSE /\ Happened("with_enter", <<f, lp>>,
                                   [__enter__(r.mcd) EXCEPT !.calls = r.calls])
                       /\ propagated' = None
                       /\ block' = [at |-> "inside", exc |-> None]
        /\ UNCHANGED <<envvars, h5>>

\* The exceptions that can end the body of the block: one the last call raised
\* and the body did not catch, or one of the body's own.
BodyExceptions ==
    {"Exception"} \cup (IF Raised(result.out) THEN {result.out.exc} ELSE {})

\* The block ends, normally (e = None) or by exception e: __exit__ runs, and the
\* exception leaves the with statement unless __exit__ returned a true value.
WithExit ==
    \E e \in {None} \cup BodyExceptions :
        /\ block.at = "inside"
        /\ LET r == __exit__(mcd, e)
           IN  /\ Happened("with_exit", <<e>>, r)
               /\ propagated' = IF r.out.value = "True" THEN None ELSE e
        /\ block' = [at |-> "exited", exc |-> e]
        /\ UNCHANGED <<envvars, environ_PATH, h5>>

Close ==
    /\ mcd # NoObject
    /\ Happened("close", <<>>, close(mcd))
    /\ UNCHANGED <<envvars, environ_PATH, block, propagated, h5>>

Info ==
    /\ mcd # NoObject
    /\ Happened("info", <<>>, info(mcd))
    /\ UNCHANGED <<envvars, environ_PATH, block, propagated, h5>>

ListEntities ==
    /\ mcd # NoObject
    /\ Happened("list_entities", <<>>, list_entities(mcd))
    /\ UNCHANGED <<envvars, environ_PATH, block, propagated, h5>>

GetEntitiesByType ==
    \E t \in {StrArg(n) : n \in {"unknown", "event", "analog", "segment", "neural",
                                 "Analog", "EVENT", "Unknown", "SPIKE", "spike", ""}}
              \cup {IntArg(c) : c \in NativeTypeCodes} :
        /\ mcd # NoObject
        /\ Happened("get_entities_by_type", <<t>>, get_entities_by_type(mcd, t))
        /\ UNCHANGED <<envvars, environ_PATH, block, propagated, h5>>

GetEntityInfo ==
    \E id \in EntityIds :
        /\ mcd # NoObject
        /\ Happened("get_entity_info", <<id>>, get_entity_info(mcd, id))
        /\ UNCHANGED <<envvars, environ_PATH, block, propagated, h5>>

GetAnalogData ==
    \E id \in EntityIds, start \in StartIndices, count \in Counts :
        /\ mcd # NoObject
        /\ Happened("get_analog_data", <<id, start, count>>,
                    get_analog_data(mcd, id, start, count))
        /\ UNCHANGED <<envvars, environ_PATH, block, propagated, h5>>

\* MCD2HDF5Converter(f, "out/rec.h5").convert(cb), once in a run of the program, as
\* in its command line; mcd is then the source handle the call held.
Convert ==
    \E f \in Filenames,
       cb \in {NoCallback} \cup {[given |-> TRUE, fails_at |-> k] : k \in -1..MaxConv} :
        /\ result.op = "none"
        /\ block.at = "outside"
        /\ Len(environ_PATH) < MaxPath
        /\ LET r == convert(MCD2HDF5Converter__init__(f, <<"out", "rec.h5">>), cb,
                            environ_PATH, h5)
           IN  /\ mcd' = r.mcd
               /\ h5' = r.h5
               /\ result' = [op |-> "convert", args |-> <<f, cb>>, out |-> r.out]
               /\ calls' = r.calls
               /\ environ_PATH' = r.PATH
        /\ UNCHANGED <<envvars, block, propagated>>

\* mcd.get_analog_data(id, start, count), over every range.
GetAnalogDataRange ==
    \E id \in EntityIds, start \in (0..(MaxData + 1)), count \in (-1..(MaxData + 1)) :
        /\ mcd # NoObject
        /\ Happened("get_analog_data", <<id, start, count>>,
                    get_analog_data(mcd, id, start, count))
        /\ UNCHANGED <<envvars, environ_PATH, block, propagated, h5>>

GetEventData ==
    \E id \in EntityIds :
        /\ mcd # NoObject
        /\ Happened("get_event_data", <<id>>, get_event_data(mcd, id))
        /\ UNCHANGED <<envvars, environ_PATH, block, propagated, h5>>

GetSegmentData ==
    \E id \in EntityIds, index \in (0..(MaxItems + 1)) :
        /\ mcd # NoObject
        /\ Happened("get_segment_data", <<id, index>>, get_segment_data(mcd, id, index))
        /\ UNCHANGED <<envvars, environ_PATH, block, propagated, h5>>

GetAllSegments ==
    \E id \in EntityIds :
        /\ mcd # NoObject
        /\ Happened("get_all_segments", <<id>>, get_all_segments(mcd, id))
        /\ UNCHANGED <<envvars, environ_PATH, block, propagated, h5>>

GetNeuralData ==
    \E id \in EntityIds, start \in StartIndices, count \in Counts :
        /\ mcd # NoObject
        /\ Happened("get_neural_data", <<id, start, count>>,
                    get_neural_data(mcd, id, start, count))
        /\ UNCHANGED <<envvars, environ_PATH, block, propagated, h5>>

----------------------------------------------------------------------------
(* Spec: the accessor over every recording within the bounds, on a machine *)
(* where the recording exists and the binding opens it.                    *)

Labels == {"El_01"}

\* np.array raises on a ragged list, as numpy has since 1.24.
NumpyNow == [ragged |-> "raise"]

\* The binding as its documentation has it: a negative count reads the rest of
\* the entity, a range is cut at the last item, every sample has a timestamp.
AnalogAsDocumented == [negative |-> "rest", past_end |-> "clip", stamps |-> "each"]

\* Every event value is a number.
IntValues(n) == [i \in 1..n |-> "int"]

\* Item index i - 1 at time i - 1.
EvenTimes == [i \in 1..MaxItems |-> i - 1]

Recordings(max) ==
    UNION {[1..n -> [label : Labels, entity_type : NativeTypeCodes,
                     item_count : 0..MaxItems, source_count : {1}]] : n \in 0..max}

NoCall == [op |-> "none", args |-> <<>>, out |-> Return(None)]

\* h5py is installed and the output file can be created.
H5pyReady == [installed |-> TRUE, writable |-> TRUE]

InitCaller ==
    /\ environ_PATH = <<>>
    /\ mcd = NoObject
    /\ block = Outside
    /\ propagated = None
    /\ result = NoCall
    /\ calls = <<>>
    /\ h5 = NoObject

Init ==
    /\ platform = "linux"
    /\ exists = {RecPath, cwd}
    /\ ns \in [library_ok : {TRUE}, file_ok : {TRUE}, bad_index : {"raise", "return"},
               entities : Recordings(MaxEntities), times : {EvenTimes}, bad_data : {{}},
               value_types : {IntValues(MaxItems)},
               columns : {1}, analog : {AnalogAsDocumented}]
    /\ h5py = H5pyReady
    /\ numpy = NumpyNow
    /\ InitCaller

Next ==
    \/ Construct
    \/ Close
    \/ Info
    \/ ListEntities
    \/ GetEntitiesByType
    \/ GetEntityInfo
    \/ GetAnalogData
    \/ GetEventData
    \/ GetSegmentData
    \/ GetAllSegments
    \/ GetNeuralData

Spec == Init /\ [][Next]_vars

----------------------------------------------------------------------------
(* SpecList: listing and filtering the entities of every recording of up   *)
(* to MaxListed entities.                                                  *)

InitList ==
    /\ platform = "linux"
    /\ exists = {RecPath, cwd}
    /\ ns \in [library_ok : {TRUE}, file_ok : {TRUE}, bad_index : {"raise"},
               entities : Recordings(MaxListed), times : {EvenTimes}, bad_data : {{}},
               value_types : {IntValues(MaxItems)},
               columns : {1}, analog : {AnalogAsDocumented}]
    /\ h5py = H5pyReady
    /\ numpy = NumpyNow
    /\ InitCaller

NextList ==
    \/ Construct
    \/ Close
    \/ Info
    \/ ListEntities
    \/ GetEntitiesByType

SpecList == InitList /\ [][NextList]_vars

----------------------------------------------------------------------------
(* SpecOpen: opening and releasing, plainly and with a with block, on      *)
(* every machine: any platform, any subset of the library locations and of *)
(* the recording present, a driver that loads or not, a recording the      *)
(* binding can open or not.                                                *)

CandidateFiles == {Candidates(1, 1)[k].file : k \in 1..Len(Candidates(1, 1))}

\* A file exists only in a directory that exists.
Consistent(paths) ==
    \A p \in paths \cap CandidateFiles : dirname(p) \in paths \cup {cwd}

InitOpen ==
    /\ platform \in {"win32", "darwin", "linux"}
    /\ exists \in {{cwd} \cup s :
                     s \in {t \in SUBSET ({RecPath, ExplicitLib, search_paths[1]}
                                          \cup CandidateFiles) : Consistent(t)}}
    /\ ns \in [library_ok : BOOLEAN, file_ok : BOOLEAN, bad_index : {"raise"},
               entities : {<< [label |-> "El_01", entity_type |-> ENTITY_ANALOG,
                               item_count |-> MaxItems, source_count |-> 1],
                              [label |-> "El_01", entity_type |-> ENTITY_EVENT,
                               item_count |-> MaxItems, source_count |-> 1] >>},
               times : {EvenTimes}, bad_data : {{}},
               value_types : {IntValues(MaxItems)},
               columns : {1}, analog : {AnalogAsDocumented}]
    /\ h5py = H5pyReady
    /\ numpy = NumpyNow
    /\ InitCaller

NextOpen ==
    \/ Construct
    \/ WithEnter
    \/ WithExit
    \/ Close
    \/ Info
    \/ ListEntities
    \/ GetEventData

SpecOpen == InitOpen /\ [][NextOpen]_vars

----------------------------------------------------------------------------
(* SpecData: reading the data of every one-entity recording of up to       *)
(* MaxData items, over a binding that is free in what the program does not *)
(* fix: the times of the items, the types of the event values, the shape   *)
(* of a waveform and the treatment of an analog range.                     *)

NonDecreasing(t) == \A i, j \in DOMAIN t : i <= j => t[i] <= t[j]

InitData ==
    /\ platform = "linux"
    /\ exists = {RecPath, cwd}
    /\ ns \in [library_ok : {TRUE}, file_ok : {TRUE}, bad_index : {"raise"},
               entities : {<<e>> : e \in [label : Labels,
                                          entity_type : ENTITY_EVENT..ENTITY_NEURAL,
                                          item_count : 0..MaxData,
                                          source_count : 1..MaxSources]},
               times : [1..MaxData -> 0..1],
               bad_data : {{}}, value_types : [1..MaxData -> {"int", "str"}],
               columns : 1..MaxSources,
               analog : [negative : {"rest", "all"}, past_end : {"clip", "raise"},
                         stamps : {"each", "first"}]]
    \* what no operation on the entity reads is left at one value
    /\ ns.entities[1].entity_type # ENTITY_EVENT => ns.value_types = IntValues(MaxData)
    /\ ns.entities[1].entity_type # ENTITY_ANALOG => ns.analog = AnalogAsDocumented
    /\ ns.entities[1].entity_type # ENTITY_SEGMENT =>
          ns.columns = 1 /\ ns.entities[1].source_count = 1
    /\ h5py = H5pyReady
    /\ numpy = NumpyNow
    /\ InitCaller

NextData ==
    \/ Construct
    \/ GetAnalogDataRange
    \/ GetEventData
    \/ GetAllSegments

SpecData == InitData /\ [][NextData]_vars

----------------------------------------------------------------------------
(* SpecConv: converting every recording of up to MaxConv entities, whose   *)
(* labels may hold a slash and may repeat, where the driver may fail to    *)
(* read the data of one entity, the recording may be missing and the       *)
(* output file may be impossible to create.                                *)

InitConv ==
    /\ platform = "linux"
    /\ exists = {RecPath, cwd}
    /\ ns \in [library_ok : {TRUE}, file_ok : {TRUE}, bad_index : {"raise"},
               entities : UNION {[1..n -> [label : {<<"a", "/", "b">>, <<"a", "_", "b">>,
                                                    <<"c">>},
                                           entity_type : ENTITY_UNKNOWN..ENTITY_NEURAL,
                                           item_count : {MaxItems},
                                           source_count : {1}]] : n \in 0..MaxConv},
               times : {EvenTimes},
               bad_data : {{}} \cup {{i} : i \in 0..(MaxConv - 1)},
               value_types : {IntValues(MaxItems)},
               columns : {1}, analog : {AnalogAsDocumented}]
    /\ ns.bad_data \subseteq 0..(Len(ns.entities) - 1)
    /\ h5py \in [installed : {TRUE}, writable : BOOLEAN]
    /\ ~h5py.writable => ns.bad_data = {}
    /\ numpy = NumpyNow
    /\ InitCaller

NextConv == Convert

SpecConv == InitConv /\ [][NextConv]_vars

\* A machine without h5py: opens, reads and a conversion, the output file
\* being there already, from an earlier conversion, or not.
OldOutput == [open |-> FALSE, attrs |-> {"old"}, top |-> <<"old">>, groups |-> <<>>]

InitImport ==
    /\ platform = "linux"
    /\ exists = {RecPath, cwd}
    /\ ns \in [library_ok : {TRUE}, file_ok : {TRUE}, bad_index : {"raise"},
               entities : Recordings(MaxEntities), times : {EvenTimes}, bad_data : {{}},
               value_types : {IntValues(MaxItems)},
               columns : {1}, analog : {AnalogAsDocumented}]
    /\ h5py = [installed |-> FALSE, writable |-> TRUE]
    /\ numpy = NumpyNow
    /\ environ_PATH = <<>>
    /\ mcd = NoObject
    /\ block = Outside
    /\ propagated = None
    /\ result = NoCall
    /\ calls = <<>>
    /\ h5 \in {NoObject, OldOutput}

NextImport ==
    \/ Convert
    \/ Construct
    \/ Info
    \/ ListEntities
    \/ GetAnalogData
    \/ Close

SpecImport == InitImport /\ [][NextImport]_vars

EventRecords ==
    [label : {<<"c">>}, entity_type : {ENTITY_EVENT}, item_count : 0..MaxData,
     source_count : {1}]

AnalogRecord ==
    [label |-> <<"d">>, entity_type |-> ENTITY_ANALOG, item_count |-> 1, source_count |-> 1]

InitEvents ==
    /\ platform = "linux"
    /\ exists = {RecPath, cwd}
    /\ ns \in [library_ok : {TRUE}, file_ok : {TRUE}, bad_index : {"raise"},
               entities : {<<e, AnalogRecord>> : e \in EventRecords}
                             \cup {<<AnalogRecord, e>> : e \in EventRecords},
               times : {[i \in 1..MaxData |-> i - 1]}, bad_data : {{}},
               value_types : [1..MaxData -> {"int", "str", "bytes", "NoneType", "list"}],
               columns : {1}, analog : {AnalogAsDocumented}]
    /\ h5py = H5pyReady
    /\ numpy \in [ragged : {"raise", "object"}]
    /\ InitCaller

NextEvents == Convert

SpecEvents == InitEvents /\ [][NextEvents]_vars

----------------------------------------------------------------------------
(* The error taxonomy, as the exceptions the code raises.                  *)

IsOpen == mcd # NoObject /\ mcd._file # NoObject

IsClosed == mcd # NoObject /\ mcd._file = NoObject

NotOpen(out) == Raised(out) /\ out.exc = "RuntimeError" /\ out.msg = "File is not open"

NotFound(out) == Raised(out) /\ out.exc = "FileNotFoundError"

OpenError(out) ==
    Raised(out) /\ out.exc = "RuntimeError" /\ out.msg = "Failed to open MCD file: ns.File"

TypeMismatch(out) ==
    /\ Raised(out)
    /\ out.exc = "ValueError"
    /\ out.msg \in {"is not an analog entity", "is not an event entity",
                    "is not a segment entity", "is not a neural entity"}

InvalidArgument(out) ==
    Raised(out) /\ out.exc = "ValueError" /\ out.msg = "Invalid entity type"

\* The entity type each typed accessor targets.
AccessorTarget ==
    ("get_analog_data" :> ENTITY_ANALOG) @@ ("get_event_data" :> ENTITY_EVENT) @@
    ("get_segment_data" :> ENTITY_SEGMENT) @@ ("get_all_segments" :> ENTITY_SEGMENT) @@
    ("get_neural_data" :> ENTITY_NEURAL)

\* The last call was a typed accessor on an entity of the recording.
AccessorOnEntity ==
    /\ result.op \in DOMAIN AccessorTarget
    /\ result.args[1] \in 0..(entity_count - 1)

AccessedEntity == ns.entities[result.args[1] + 1]

OpenOps == {"open", "with_enter"}

----------------------------------------------------------------------------
(* The claims.                                                             *)

\* C1: on an open handle, a typed accessor called on an entity whose declared
\* type is not the type the accessor targets raises ValueError (TypeMismatch)
\* and returns no record.
C1_TypeMismatch ==
    (IsOpen /\ AccessorOnEntity /\ AccessedEntity.entity_type # AccessorTarget[result.op])
        => TypeMismatch(result.out) /\ result.out.value = None

\* get_event_data was called on an analog entity (the case of
\* test_invalid_entity_type) and raised ValueError.
C1_Witness ==
    /\ IsOpen
    /\ result.op = "get_event_data"
    /\ AccessorOnEntity
    /\ AccessedEntity.entity_type = ENTITY_ANALOG
    /\ TypeMismatch(result.out)

\* C2: close() always returns and leaves the handle closed, and on a closed
\* handle every read operation, whatever its arguments, raises
\* RuntimeError("File is not open") (NotOpen).
C2_ClosedFailsNotOpen ==
    /\ result.op = "close" => Returned(result.out) /\ IsClosed
    /\ (IsClosed /\ result.op \in ReadOps) => NotOpen(result.out)

\* C3: opening a path that does not exist raises FileNotFoundError (NotFound),
\* gives no handle, and the only call made is the existence test of that path:
\* no library lookup, no library load, no native open.
C3_NotFoundBeforeNative ==
    (result.op \in OpenOps /\ result.args[1] \notin exists)
        => /\ NotFound(result.out)
           /\ mcd = NoObject
           /\ Len(calls) = 1
           /\ calls[1].fn = "os.path.exists"
           /\ \A k \in 1..Len(calls) :
                 calls[k].fn \notin {"_find_library_path", "ns.Library", "ns.File"}

\* A missing recording was opened on a machine where the driver is present and
\* loads: the library calls were possible, and NotFound came first.
C3_Witness ==
    /\ result.op = "open"
    /\ result.args[1] \notin exists
    /\ result.args[2] = ExplicitLib
    /\ ExplicitLib \in exists
    /\ ns.library_ok
    /\ NotFound(result.out)

\* C4: opening an existing path either returns an open handle or raises
\* RuntimeError (OpenError), never a handle that is not open; and an open
\* handle stays open until close is called (by the caller or by __exit__).
C4_OpenOrOpenError ==
    /\ []((result.op \in OpenOps /\ result.args[1] \in exists)
              => \/ Returned(result.out) /\ IsOpen /\ ns.file_ok
                 \/ OpenError(result.out) /\ mcd = NoObject /\ ~ns.file_ok)
    /\ [][(IsOpen /\ ~IsOpen') => result'.op \in {"close", "with_exit"}]_vars

\* The driver at the library path did not load, the binding opened the
\* recording on its own, and the handle is open.
C4_Witness ==
    /\ result.op = "open"
    /\ result.args[1] \in exists
    /\ result.args[2] = ExplicitLib
    /\ ExplicitLib \in exists
    /\ ~ns.library_ok
    /\ Returned(result.out)
    /\ IsOpen

\* C5: once a with block has ended, normally or by an exception, the handle is
\* closed, and an exception that ended the block has left the with statement.
C5_WithReleases ==
    block.at = "exited" => IsClosed /\ mcd._lib = NoObject /\ propagated = block.exc

\* The block ended by the ValueError of a mismatched accessor: the handle is
\* closed and the ValueError reached the caller.
C5_Witness ==
    /\ block.at = "exited"
    /\ block.exc = "ValueError"
    /\ propagated = "ValueError"
    /\ IsClosed

----------------------------------------------------------------------------
(* Listing and filtering.                                                  *)

\* C6: on an open handle list_entities() returns entity_count entries, the
\* k-th (from 0) with id k, each carrying id, label, type, type_name and
\* item_count, the label, type and item count being the entity's own.
C6_ListEntities ==
    (IsOpen /\ result.op = "list_entities")
        => /\ Returned(result.out)
           /\ Len(result.out.value) = entity_count
           /\ \A k \in 0..(entity_count - 1) :
                 LET e == result.out.value[k + 1]
                 IN  /\ DOMAIN e = {"id", "label", "type", "type_name", "item_count"}
                     /\ e.id = k
                     /\ e.label = ns.entities[k + 1].label
                     /\ e.type = ns.entities[k + 1].entity_type
                     /\ e.item_count = ns.entities[k + 1].item_count

\* list_entities() returned the MaxListed entries of a full recording.
C6_Witness ==
    /\ IsOpen
    /\ result.op = "list_entities"
    /\ Returned(result.out)
    /\ entity_count = MaxListed
    /\ Len(result.out.value) = MaxListed
    /\ result.out.value[MaxListed].id = MaxListed - 1

\* The type code a filter argument asks for is the type of entry e.
HasRequestedType(e, t) ==
    IF t.isstr
    THEN e.type \in DOMAIN ENTITY_TYPE_NAMES /\ ENTITY_TYPE_NAMES[e.type] = lower(t.name)
    ELSE e.type = t.code

Occurrences(seq, e) == Cardinality({i \in 1..Len(seq) : seq[i] = e})

\* C7: whatever type codes the driver reports, a filtered list holds only
\* entries of the requested type, and get_entities_by_type(e.type_name) holds
\* every entry e of list_entities() exactly once.
C7_FilterByOwnTypeName ==
    (IsOpen /\ result.op = "get_entities_by_type" /\ Returned(result.out))
        => /\ \A i \in 1..Len(result.out.value) :
                 HasRequestedType(result.out.value[i], result.args[1])
           /\ \A k \in 1..entity_count :
                 LET e == list_entities(mcd).out.value[k]
                 IN  result.args[1] = StrArg(e.type_name)
                         => Occurrences(result.out.value, e) = 1

\* The entries of list `all` with type t, in increasing id order, and no others.
IsSubsequenceOfType(seq, all, t) ==
    /\ \A i \in 1..Len(seq) :
          /\ seq[i].id + 1 \in 1..Len(all)
          /\ seq[i] = all[seq[i].id + 1]
          /\ seq[i].type = t
    /\ \A i, j \in 1..Len(seq) : i < j => seq[i].id < seq[j].id
    /\ \A k \in 1..Len(all) : all[k].type = t => \E i \in 1..Len(seq) : seq[i] = all[k]

\* C8: for each of the five types, get_entities_by_type with the name and with
\* the code return the same sequence: the entries of list_entities() with that
\* type, in increasing id order.
C8_NameOrCode ==
    \A t \in DOMAIN ENTITY_TYPE_NAMES :
        (/\ IsOpen
         /\ result.op = "get_entities_by_type"
         /\ result.args[1] \in {StrArg(ENTITY_TYPE_NAMES[t]), IntArg(t)})
            => /\ Returned(result.out)
               /\ IsSubsequenceOfType(result.out.value, list_entities(mcd).out.value, t)
               /\ get_entities_by_type(mcd, StrArg(ENTITY_TYPE_NAMES[t])).out = result.out
               /\ get_entities_by_type(mcd, IntArg(t)).out = result.out

\* "segment" was asked by name in a recording whose first and last entities are
\* segments: both are returned, in id order.
C8_Witness ==
    /\ IsOpen
    /\ result.op = "get_entities_by_type"
    /\ result.args[1] = StrArg("segment")
    /\ Returned(result.out)
    /\ entity_count = MaxListed
    /\ Len(result.out.value) >= 2
    /\ result.out.value[1].id = 0
    /\ result.out.value[Len(result.out.value)].id = MaxListed - 1

\* C9: get_entities_by_type with a string that, lower-cased as the method does,
\* is not one of the five type names raises ValueError (InvalidArgument) and
\* returns no list, on any handle.
C9_UnrecognizedName ==
    (/\ result.op = "get_entities_by_type"
     /\ result.args[1].isstr
     /\ lower(result.args[1].name) \notin
           {ENTITY_TYPE_NAMES[k] : k \in DOMAIN ENTITY_TYPE_NAMES})
        => InvalidArgument(result.out) /\ result.out.value = None

\* "SPIKE" was asked on an open handle and raised ValueError.
C9_Witness ==
    /\ IsOpen
    /\ result.op = "get_entities_by_type"
    /\ result.args[1] = StrArg("SPIKE")
    /\ InvalidArgument(result.out)

\* The code has no exception of its own for an index out of range: any
\* exception raised at the call counts as OutOfRange.
OutOfRange(out) == Raised(out)

\* C10: get_segment_data(id, index) on a segment entity with index >= item_count
\* raises at that call and returns no record.
C10_SegmentIndexOutOfRange ==
    (/\ IsOpen
     /\ result.op = "get_segment_data"
     /\ AccessorOnEntity
     /\ AccessedEntity.entity_type = ENTITY_SEGMENT
     /\ result.args[2] >= AccessedEntity.item_count)
        => OutOfRange(result.out)

\* The last call was the typed accessor op on an entity of its own type, on an
\* open handle, and it returned.
Read(op) ==
    /\ IsOpen
    /\ result.op = op
    /\ AccessorOnEntity
    /\ AccessedEntity.entity_type = AccessorTarget[op]
    /\ Returned(result.out)

GetDataCalls == SelectSeq(calls, LAMBDA c : c.fn = "get_data")

AnalogRead ==
    /\ IsOpen
    /\ result.op = "get_analog_data"
    /\ AccessorOnEntity
    /\ AccessedEntity.entity_type = ENTITY_ANALOG

C14_EventItems ==
    Read("get_event_data") /\ NonDecreasing(SubSeq(ns.times, 1, AccessedEntity.item_count)) =>
        LET id == result.args[1]
            n == AccessedEntity.item_count
            item(i) == event_get_data(AccessedEntity, id, i).value
        IN  /\ GetDataCalls = [k \in 1..n |-> Call("get_data", <<k - 1>>)]
            /\ result.out.value.timestamps = [k \in 1..n |-> item(k - 1).timestamp]
            /\ result.out.value.values.items = [k \in 1..n |-> item(k - 1).value]
            /\ NonDecreasing(result.out.value.timestamps)

----------------------------------------------------------------------------
(* The converter: what a call of convert did, read from the calls it made  *)
(* and from the output file.                                               *)

Converted == result.op = "convert"

Total == Len(ns.entities)

GivenCallback == result.args[2].given

\* MCDFile(mcd_filename) succeeds.
SourceOpens == result.args[1] \in exists /\ ns.file_ok

ProgressCalls == SelectSeq(calls, LAMBDA c : c.fn = "progress_callback")

Warnings == SelectSeq(calls, LAMBDA c : c.fn = "print")

\* The accessor convert calls for each entity type, and the group it writes to.
ConverterReads ==
    (ENTITY_EVENT :> "get_event_data") @@ (ENTITY_ANALOG :> "get_analog_data") @@
    (ENTITY_SEGMENT :> "get_all_segments") @@ (ENTITY_NEURAL :> "get_neural_data")

TopGroups ==
    (ENTITY_EVENT :> "events") @@ (ENTITY_ANALOG :> "analog") @@
    (ENTITY_SEGMENT :> "segments") @@ (ENTITY_NEURAL :> "neural")

IsRead(c) == \E t \in DOMAIN ConverterReads : c.fn = ConverterReads[t]

\* The number of callback invocations before position p of the calls.
ProgressBefore(p) == Cardinality({q \in 1..(p - 1) : calls[q].fn = "progress_callback"})

\* The entities convert has a branch for.
Typed == {i \in 0..(Total - 1) : ns.entities[i + 1].entity_type \in DOMAIN ConverterReads}

SafeLabel(i) == replace(ns.entities[i + 1].label, "/", "_")

\* The child groups of the top-level group of type t.
Children(t) == {k \in DOMAIN h5.groups : h5.groups[k].parent = TopGroups[t]}

\* Entity i is read and its group is created after the callback was invoked for
\* i and before it is invoked for i + 1.
ReadAndWrittenAfterProgress ==
    \A p \in DOMAIN calls :
        /\ IsRead(calls[p]) => ProgressBefore(p) = calls[p].arg + 1
        /\ calls[p].fn = "create_group" =>
              /\ ProgressBefore(p) >= 1
              /\ calls[p].arg[2] = SafeLabel(ProgressBefore(p) - 1)

PerEntityProgress ==
    \A i \in 0..(Total - 1) :
        ProgressCalls[i + 1].arg = <<i, Total, <<"Converting ", ns.entities[i + 1].label>>>>

\* C15, as stated: when convert is given a callback and returns, the callback
\* is invoked total + 1 times: for each entity i in increasing order with
\* (i, total, message) before the entity is read or written, whether or not its
\* conversion fails, and last with (total, total, "done").
C15_ProgressDone ==
    (Converted /\ GivenCallback /\ Returned(result.out)) =>
        /\ Len(ProgressCalls) = Total + 1
        /\ PerEntityProgress
        /\ ReadAndWrittenAfterProgress
        /\ ProgressCalls[Total + 1].arg = <<Total, Total, <<"done">>>>

\* C15, amended: the same, the last invocation being with
\* (total, total, "Conversion complete").
C15_Progress ==
    (Converted /\ GivenCallback /\ Returned(result.out)) =>
        /\ Len(ProgressCalls) = Total + 1
        /\ PerEntityProgress
        /\ ReadAndWrittenAfterProgress
        /\ ProgressCalls[Total + 1].arg = <<Total, Total, <<"Conversion complete">>>>

C15_Witness ==
    /\ Converted /\ GivenCallback /\ Returned(result.out)
    /\ Total = 2
    /\ Len(Warnings) = 1
    /\ Len(h5.groups) = 1

\* The entities whose conversion raises: the driver fails to read the data,
\* the group name is taken by an earlier entity of the same type, or the
\* values of an event entity are an array h5py cannot store.
Failing ==
    {i \in Typed :
        \/ i \in ns.bad_data
        \/ \E j \in Typed : /\ j < i
                             /\ j \notin ns.bad_data
                             /\ ns.entities[j + 1].entity_type = ns.entities[i + 1].entity_type
                             /\ SafeLabel(j) = SafeLabel(i)
        \/ /\ ns.entities[i + 1].entity_type = ENTITY_EVENT
           /\ LET values == try_np_array([k \in 1..ns.entities[i + 1].item_count |->
                                             [type |-> ns.value_types[k],
                                              v |-> Sample(i, k - 1)]])
              IN  isinstance_ndarray(values) /\ ~h5py_storable(values)}

\* C16: when the source and the output open and the callback does not raise,
\* convert returns normally whatever entities fail: each failing entity leaves
\* a warning, and every entity, those after a failing one included, is read.
C16_EntityFailureContained ==
    (/\ Converted /\ SourceOpens /\ h5py.writable
     /\ ~(GivenCallback /\ result.args[2].fails_at \in 0..Total)) =>
        /\ Returned(result.out)
        /\ Len(Warnings) = Cardinality(Failing)
        /\ \A i \in Failing : \E p \in DOMAIN Warnings : Warnings[p].arg[2] = SafeLabel(i)
        /\ \A i \in Typed :
              \E p \in DOMAIN calls :
                  /\ calls[p].fn = ConverterReads[ns.entities[i + 1].entity_type]
                  /\ calls[p].arg = i

C16_Witness ==
    /\ Converted /\ Returned(result.out)
    /\ Total = 2
    /\ ns.bad_data = {0}
    /\ Failing = {0}
    /\ Typed = {0, 1}
    /\ Len(h5.groups) = 1

\* C17: when the source or the output file cannot be opened, convert raises:
\* no warning is printed, no entity is read, no group is created, the
\* callback is not invoked, and there is no output file.
C17_OpenFailureFatal ==
    (Converted /\ (~SourceOpens \/ ~h5py.writable)) =>
        /\ Raised(result.out)
        /\ \A p \in DOMAIN calls :
              /\ ~IsRead(calls[p])
              /\ calls[p].fn \notin {"create_group", "progress_callback", "print"}
        /\ h5 = NoObject

C17_Witness ==
    /\ Converted /\ Raised(result.out)
    /\ SourceOpens /\ ~h5py.writable
    /\ GivenCallback
    /\ Total >= 1

\* C18: however convert ends, the source handle it opened is closed and the
\* output file it created is closed.
C18_BothReleased ==
    Converted =>
        /\ ~IsOpen
        /\ SourceOpens => IsClosed /\ mcd._lib = NoObject
        /\ h5 # NoObject => ~h5.open

C18_Witness ==
    /\ Converted /\ Raised(result.out)
    /\ result.out.exc = "CallbackError"
    /\ IsClosed
    /\ h5 # NoObject /\ Len(h5.groups) >= 1

\* C19: after convert returns, the output has the top-level groups events,
\* analog, segments and neural, and under each of them one child group per
\* entity of that type, named by the label with every slash replaced,
\* whatever the labels are.
C19_OneGroupPerEntity ==
    (Converted /\ Returned(result.out) /\ ns.bad_data = {}) =>
        /\ h5.top = <<"events", "analog", "segments", "neural">>
        /\ \A t \in DOMAIN TopGroups :
              /\ Cardinality(Children(t)) =
                    Cardinality({i \in Typed : ns.entities[i + 1].entity_type = t})
              /\ {h5.groups[k].name : k \in Children(t)} =
                    {SafeLabel(i) : i \in {j \in Typed : ns.entities[j + 1].entity_type = t}}

\* The handle a new MCDFile on the converted recording gives.
Reopened == MCDFile__init__(result.args[1], NoPath, environ_PATH).mcd

\* The datasets of a group whose group is that of entity i read through the
\* accessor.
RoundTrips(g, i) ==
    LET t == ns.entities[i + 1].entity_type
        ds(name, data) == [name |-> name, data |-> data]
    IN  CASE t = ENTITY_ANALOG ->
               LET a == get_analog_data(Reopened, i, 0, -1).out.value
               IN  g.datasets = <<ds("data", a.data), ds("timestamps", a.timestamps)>>
          [] t = ENTITY_NEURAL ->
               LET n == get_neural_data(Reopened, i, 0, -1).out.value
               IN  g.datasets = <<ds("timestamps", n.timestamps)>>
          [] t = ENTITY_EVENT ->
               LET e == get_event_data(Reopened, i).out.value
               IN  g.datasets = <<ds("timestamps", e.timestamps), ds("values", e.values)>>
          [] OTHER ->
               LET segs == get_all_segments(Reopened, i).out.value
               IN  /\ Len(g.segments) = Len(segs)
                   /\ \A k \in DOMAIN segs :
                         /\ g.segments[k].datasets = <<ds("data", segs[k].data)>>
                         /\ g.segments[k].attrs.timestamp = segs[k].timestamp
                         /\ g.segments[k].attrs.unit_id = segs[k].unit_id

\* C20: after convert returns, the group of every entity, found under the
\* group of its type by its label with the slashes replaced, holds the arrays
\* the accessor returns for that entity.
C20_RoundTrip ==
    (Converted /\ Returned(result.out) /\ ns.bad_data = {}) =>
        \A i \in Typed :
            \E k \in Children(ns.entities[i + 1].entity_type) :
                /\ h5.groups[k].name = SafeLabel(i)
                /\ RoundTrips(h5.groups[k], i)

\* The types of the values of the items of event entity i.
EventValueTypes(i) == [k \in 1..ns.entities[i + 1].item_count |-> ns.value_types[k]]

\* The values of event entity i are all numbers, or there is one value and it
\* is a list of numbers.
HomogeneousNumeric(i) ==
    \/ \A k \in DOMAIN EventValueTypes(i) : EventValueTypes(i)[k] = "int"
    \/ EventValueTypes(i) = <<"list">>

DatasetNames(g) == [k \in DOMAIN g.datasets |-> g.datasets[k].name]

\* C21: after convert returns, the group of every event entity has a
\* timestamps dataset, and a values dataset exactly when the values of the
\* entity are homogeneous numeric.
C21_EventDatasets ==
    (Converted /\ Returned(result.out)) =>
        \A i \in {j \in Typed : ns.entities[j + 1].entity_type = ENTITY_EVENT} :
            \E k \in Children(ENTITY_EVENT) :
                /\ h5.groups[k].name = SafeLabel(i)
                /\ DatasetNames(h5.groups[k]) =
                      IF HomogeneousNumeric(i) THEN <<"timestamps", "values">>
                      ELSE <<"timestamps">>

\* A warning was printed for entity i.
Warned(i) == \E p \in DOMAIN Warnings : Warnings[p].arg[2] = SafeLabel(i)

\* C25: after convert returns, an entity whose conversion failed with a
\* warning has no group in the output, and every other entity has its group
\* with its datasets.
C25_AllOrNothing ==
    (Converted /\ Returned(result.out)) =>
        \A i \in Typed :
            LET named == {k \in Children(ns.entities[i + 1].entity_type) :
                             h5.groups[k].name = SafeLabel(i)}
            IN  IF Warned(i) THEN named = {}
                ELSE \E k \in named : h5.groups[k].datasets # <<>>

\* C24: get_neural_data(id, s, -1) on a neural entity, for s in 0..item_count,
\* asks the binding for the item_count - s items from s on: the range
\* requested does not go past item_count.
C24_NeuralToTheEnd ==
    (/\ IsOpen
     /\ result.op = "get_neural_data"
     /\ AccessorOnEntity
     /\ AccessedEntity.entity_type = ENTITY_NEURAL
     /\ result.args[2] \in 0..AccessedEntity.item_count
     /\ result.args[3] < 0) =>
        /\ Len(GetDataCalls) = 1
        /\ GetDataCalls[1].arg =
              <<result.args[2], AccessedEntity.item_count - result.args[2]>>

\* The candidates that exist, by their position in the order of the search.
Found ==
    {k \in DOMAIN Candidates(1, 1) :
        Candidates(1, 1)[k].dir \in exists /\ Candidates(1, 1)[k].file \in exists}

\* The library path the caller gave exists.
ExplicitGiven == result.args[2] # NoPath /\ result.args[2] \in exists

\* The library path the open went on with: the one _open_file tested.
Resolved == calls[3].arg

LibraryLoads == SelectSeq(calls, LAMBDA c : c.fn = "ns.Library")

NativeOpens == SelectSeq(calls, LAMBDA c : c.fn = "ns.File")

\* An open of an existing recording went on with the path the caller gave when
\* it exists, and otherwise with the first candidate that exists, the
\* candidates being ordered by directory and then by file name; the driver
\* at that path was loaded.  With no candidate no driver was loaded and the
\* binding was left to find one.
ResolvedInOrder ==
    (result.op \in OpenOps /\ result.args[1] \in exists) =>
        /\ \A i \in DOMAIN search_paths, j \in DOMAIN lib_names :
              Candidates(1, 1)[(i - 1) * Len(lib_names) + j].file =
                  Join(search_paths[i], lib_names[j])
        /\ calls[3].fn = "os.path.exists"
        /\ ExplicitGiven => Resolved = result.args[2]
        /\ (~ExplicitGiven /\ Found # {}) =>
              \E k \in Found : /\ \A j \in Found : k <= j
                               /\ Resolved = Candidates(1, 1)[k].file
        /\ (ExplicitGiven \/ Found # {}) =>
              /\ Len(LibraryLoads) = 1
              /\ LibraryLoads[1].arg = Resolved
        /\ (~ExplicitGiven /\ Found = {}) => LibraryLoads = <<>>
        /\ Len(NativeOpens) = 1
        /\ NativeOpens[1].arg = result.args[1]

\* No driver was found and the binding could not open the recording.
AutoDetectionFails ==
    /\ result.op \in OpenOps
    /\ result.args[1] \in exists
    /\ ~ExplicitGiven
    /\ Found = {}
    /\ ~ns.file_ok

\* C23 as stated: the library path is resolved in order, and with no driver
\* found the exception of the binding leaves the open as the binding raised it.
C23_FailureVerbatim ==
    /\ ResolvedInOrder
    /\ AutoDetectionFails => result.out = ns_File(result.args[1])

\* C23: the library path is resolved in order, and with no driver found the
\* failure of the binding leaves the open as RuntimeError (OpenError) whose
\* message is "Failed to open MCD file: " and the message of the binding.
C23_LibraryResolution ==
    /\ ResolvedInOrder
    /\ AutoDetectionFails =>
          /\ Raised(result.out)
          /\ result.out.exc = "RuntimeError"
          /\ result.out.msg = "Failed to open MCD file: " \o ns_File(result.args[1]).msg
          /\ mcd = NoObject

\* No driver anywhere, a library path given that does not exist, and the
\* binding fails on its own.
C23_Witness ==
    /\ AutoDetectionFails
    /\ result.op = "open"
    /\ result.args[2] = ExplicitLib
    /\ Raised(result.out)

ImportFailed == Raised(result.out) /\ result.out.exc = "ImportError"

\* C22: without h5py, opening and reading through MCDFile work as they do,
\* and convert raises ImportError before the recording is opened and leaves
\* the output file, when there is one, as it was.
C22_ImportErrorFirst ==
    /\ [](~h5py.installed =>
              /\ (result.op = "open" /\ result.args[1] \in exists) =>
                    Returned(result.out) /\ IsOpen
              /\ (IsOpen /\ result.op = "info") => Returned(result.out)
              /\ (IsOpen /\ result.op = "list_entities") =>
                    Returned(result.out) /\ Len(result.out.value) = entity_count
              /\ (Read("get_analog_data") /\ result.args[2] = 0 /\ result.args[3] < 0) =>
                    Len(result.out.value.data) = AccessedEntity.item_count
              /\ (IsOpen /\ result.op = "get_analog_data" /\ AccessorOnEntity
                    /\ AccessedEntity.entity_type = ENTITY_ANALOG) => Returned(result.out)
              /\ ~Converted => \A k \in DOMAIN calls : calls[k].fn # "import"
              /\ Converted =>
                    /\ ImportFailed
                    /\ calls = <<Call("import", "h5py")>>
                    /\ mcd = NoObject)
    /\ [][(~h5py.installed /\ result'.op = "convert") => h5' = h5]_vars

\* convert has raised ImportError with an output file of an earlier
\* conversion in place.
C22_Witness ==
    /\ Converted
    /\ ~h5py.installed
    /\ result.args[1] \in exists
    /\ ImportFailed
    /\ h5 = OldOutput

\* C26: a read operation on a handle, whether it returns or raises, leaves
\* the handle and the recording as they were, so the same call made again
\* returns the same; the only call that changes a handle is close.
C26_ReadsLeaveHandle ==
    /\ [][(mcd # NoObject /\ result'.op \in ReadOps) =>
             (mcd' = mcd /\ UNCHANGED envvars)]_vars
    /\ [][(mcd # NoObject /\ mcd' # mcd) => result'.op = "close"]_vars
    /\ [](IsOpen =>
              /\ result.op = "info" => result.out = info(mcd).out
              /\ result.op = "list_entities" => result.out = list_entities(mcd).out
              /\ result.op = "get_entities_by_type" =>
                    result.out = get_entities_by_type(mcd, result.args[1]).out
              /\ result.op = "get_entity_info" =>
                    result.out = get_entity_info(mcd, result.args[1]).out
              /\ result.op = "get_event_data" =>
                    result.out = get_event_data(mcd, result.args[1]).out
              /\ result.op = "get_analog_data" =>
                    result.out = get_analog_data(mcd, result.args[1], result.args[2],
                                                 result.args[3]).out)

\* An accessor called on an entity of another type raised, and the handle is
\* open on the recording as before.
C26_Witness ==
    /\ IsOpen
    /\ mcd._file.filename = RecPath
    /\ result.op = "get_neural_data"
    /\ AccessorOnEntity
    /\ AccessedEntity.entity_type = ENTITY_SEGMENT
    /\ TypeMismatch(result.out)

====
